---- MODULE Spec2Model ----
(***************************************************************************)
(* Model of the weather dashboard front end: the hash router of            *)
(* assets/js/route.js and the render pipeline of assets/js/app.js.         *)
(*                                                                         *)
(* Strings are sequences of one-character strings, so that split,          *)
(* startsWith, find and parseFloat are computed on the characters as the   *)
(* JavaScript does.  Numbers are fixed point: a coordinate v stands for    *)
(* v / Scale, which holds every decimal of up to four fraction digits.     *)
(***************************************************************************)
EXTENDS Integers, Sequences, FiniteSets, TLC

\* ------------------------------------------------------------- bounds ----
\* User navigations (hash edits, link clicks) after the page was opened.
MaxNav == 1
\* Longest forecast list a forecast response carries under SpecForecast.
MaxForecastLen == 63

\* Input events on the search field in one run
MaxInputs == 3

\* ------------------------------------------------------ number format ----
\* Fixed-point scale of the coordinates: four fraction digits.
Scale == 10 ^ 4

Digits == <<"0", "1", "2", "3", "4", "5", "6", "7", "8", "9">>

IsDigit(c) == \E i \in 1..10 : Digits[i] = c

DigitVal(c) == (CHOOSE i \in 1..10 : Digits[i] = c) - 1

\* Number of leading decimal digits of s.
RECURSIVE DigitRun(_)
DigitRun(s) ==
    IF s = <<>> \/ ~IsDigit(Head(s)) THEN 0 ELSE 1 + DigitRun(Tail(s))

\* Value of a string of decimal digits.
RECURSIVE DigitsValue(_)
DigitsValue(ds) ==
    IF ds = <<>> THEN 0
    ELSE 10 * DigitsValue(SubSeq(ds, 1, Len(ds) - 1)) + DigitVal(ds[Len(ds)])

\* The first four fraction digits as a number of 1/Scale units.
FractionValue(fs) ==
    LET d(i) == IF i <= Len(fs) THEN DigitVal(fs[i]) ELSE 0
    IN  1000 * d(1) + 100 * d(2) + 10 * d(3) + d(4)

NaN == [nan |-> TRUE, val |-> 0]

\* A parseFloat that reads the digits and drops the sign.
parseFloatUnsigned(s) ==
    IF s = <<>> THEN NaN
    ELSE
    LET signed == Head(s) \in {"-", "+"}
        body   == IF signed THEN Tail(s) ELSE s
        ni     == DigitRun(body)
        rest   == SubSeq(body, ni + 1, Len(body))
        dot    == rest # <<>> /\ Head(rest) = "."
        nf     == IF dot THEN DigitRun(Tail(rest)) ELSE 0
    IN  IF ni + nf = 0 THEN NaN
        ELSE [nan |-> FALSE,
              val |-> Scale * DigitsValue(SubSeq(body, 1, ni))
                        + FractionValue(SubSeq(rest, 2, nf + 1))]

\* JavaScript parseFloat on strings without exponent, whitespace or
\* "Infinity": an optional sign, digits, an optional "." and digits.  The
\* longest such prefix is the number; whatever follows it is ignored.  No
\* digit at all gives NaN.
parseFloat(s) ==
    IF s = <<>> THEN NaN
    ELSE
    LET signed == Head(s) \in {"-", "+"}
        body   == IF signed THEN Tail(s) ELSE s
        ni     == DigitRun(body)
        rest   == SubSeq(body, ni + 1, Len(body))
        dot    == rest # <<>> /\ Head(rest) = "."
        nf     == IF dot THEN DigitRun(Tail(rest)) ELSE 0
        mag    == Scale * DigitsValue(SubSeq(body, 1, ni))
                    + FractionValue(SubSeq(rest, 2, nf + 1))
    IN  IF ni + nf = 0 THEN NaN
        ELSE [nan |-> FALSE, val |-> IF Head(s) = "-" THEN 0 - mag ELSE mag]

\* Decimal digits of a natural number.
RECURSIVE NatToStr(_)
NatToStr(n) ==
    IF n < 10 THEN <<Digits[n + 1]>>
    ELSE NatToStr(n \div 10) \o <<Digits[(n % 10) + 1]>>

\* Fraction digits of f/Scale without trailing zeros (f in 1..Scale-1).
RECURSIVE FracToStr(_, _)
FracToStr(f, width) ==
    IF f = 0 THEN <<>>
    ELSE LET unit == IF width = 4 THEN 1000 ELSE IF width = 3 THEN 100
                     ELSE IF width = 2 THEN 10 ELSE 1
         IN  <<Digits[(f \div unit) + 1]>> \o FracToStr(f % unit, width - 1)

\* JavaScript Number-to-string conversion of a template literal, for the
\* fixed-point v: "-0.12", "51.5", "77.209", "0", "999".
NumToStr(v) ==
    LET mag == IF v < 0 THEN 0 - v ELSE v
    IN  (IF v < 0 THEN <<"-">> ELSE <<>>)
          \o NatToStr(mag \div Scale)
          \o (IF mag % Scale = 0 THEN <<>>
              ELSE <<".">> \o FracToStr(mag % Scale, 4))

\* ------------------------------------------------------------ strings ----
\* String.prototype.startsWith
StartsWith(s, prefix) ==
    Len(s) >= Len(prefix) /\ SubSeq(s, 1, Len(prefix)) = prefix

\* Position of the first occurrence of the character c in s, 0 if none.
IndexOf(s, c) ==
    IF \A i \in 1..Len(s) : s[i] # c THEN 0
    ELSE CHOOSE i \in 1..Len(s) :
            s[i] = c /\ \A j \in 1..(i - 1) : s[j] # c

\* String.prototype.split on a one-character separator: always at least one
\* segment, "" included.
Split(s, c) ==
    LET seps   == {i \in 1..Len(s) : s[i] = c}
        n      == Cardinality(seps) + 1
        \* Position of the k-th separator; 0 before the first segment and
        \* Len(s) + 1 after the last.
        sep(k) == IF k = 0 THEN 0
                  ELSE IF k = n THEN Len(s) + 1
                  ELSE CHOOSE i \in seps :
                          Cardinality({j \in seps : j < i}) = k - 1
    IN  [k \in 1..n |-> SubSeq(s, sep(k - 1) + 1, sep(k) - 1)]

\* Index of the last element of params that starts with prefix, 0 if none.
FindParamLast(params, prefix) ==
    IF \A i \in 1..Len(params) : ~StartsWith(params[i], prefix) THEN 0
    ELSE CHOOSE i \in 1..Len(params) :
            /\ StartsWith(params[i], prefix)
            /\ \A j \in (i + 1)..Len(params) : ~StartsWith(params[j], prefix)

\* Array.prototype.find with startsWith: index of the first element of
\* params that starts with prefix, 0 for undefined.
FindParam(params, prefix) ==
    IF \A i \in 1..Len(params) : ~StartsWith(params[i], prefix) THEN 0
    ELSE CHOOSE i \in 1..Len(params) :
            /\ StartsWith(params[i], prefix)
            /\ \A j \in 1..(i - 1) : ~StartsWith(params[j], prefix)

\* ----------------------------------------------------- route.js data ----
LatKey == <<"l", "a", "t", "=">>
LonKey == <<"l", "o", "n", "=">>

WeatherRoute == <<"/", "w", "e", "a", "t", "h", "e", "r">>
CurrentLocationRoute ==
    <<"/", "c", "u", "r", "r", "e", "n", "t", "-",
      "l", "o", "c", "a", "t", "i", "o", "n">>

\* "#/weather?lat=<lat>&lon=<lon>", as the template literal of a search
\* result link builds it from two numbers.
WeatherHash(lat, lon) ==
    <<"#">> \o WeatherRoute \o <<"?">> \o LatKey \o NumToStr(lat)
        \o <<"&">> \o LonKey \o NumToStr(lon)

\* "#/weather?lat=28.6139&lon=77.209"
defaultLocation ==
    <<"#">> \o WeatherRoute \o <<"?">> \o LatKey
        \o <<"2", "8", ".", "6", "1", "3", "9">> \o <<"&">> \o LonKey
        \o <<"7", "7", ".", "2", "0", "9">>

CurrentLocationHash == <<"#">> \o CurrentLocationRoute

\* The route table: route key -> handler name.
routes ==
    [r \in {CurrentLocationRoute, WeatherRoute} |->
        IF r = CurrentLocationRoute THEN "currentLocation"
        ELSE "searchedLocation"]

\* Outcome of a handler run: the functions it invoked, in order, whether it
\* asked for the device position, whether error404 ran, and the arguments of
\* its updateWeather call (<<>> when it made none).
NoCall == <<>>

\* searchedLocation without the return that follows the range check's
\* error404(): the call of updateWeather is reached all the same.
searchedLocationNoReturn(query) ==
    LET params == Split(query, "&")
        latAt  == FindParam(params, LatKey)
        lonAt  == FindParam(params, LonKey)
    IN  IF latAt = 0 \/ lonAt = 0
        THEN [fired |-> <<"searchedLocation", "error404">>,
              geo |-> FALSE, err |-> TRUE, upd |-> NoCall]
        ELSE
        LET lat == parseFloat(Split(params[latAt], "=")[2])
            lon == parseFloat(Split(params[lonAt], "=")[2])
            bad == lat.nan \/ lon.nan
                     \/ lat.val < -90 * Scale \/ lat.val > 90 * Scale
                     \/ lon.val < -180 * Scale \/ lon.val > 180 * Scale
        IN  [fired |-> IF bad
                       THEN <<"searchedLocation", "error404", "updateWeather">>
                       ELSE <<"searchedLocation", "updateWeather">>,
             geo |-> FALSE, err |-> bad, upd |-> <<lat.val, lon.val>>]

\* searchedLocation(query)
searchedLocation(query) ==
    LET params == Split(query, "&")
        latAt  == FindParam(params, LatKey)
        lonAt  == FindParam(params, LonKey)
        fail   == [fired |-> <<"searchedLocation", "error404">>,
                   geo |-> FALSE, err |-> TRUE, upd |-> NoCall]
    IN  IF latAt = 0 \/ lonAt = 0 THEN fail
        ELSE
        LET lat == parseFloat(Split(params[latAt], "=")[2])
            lon == parseFloat(Split(params[lonAt], "=")[2])
        IN  IF lat.nan \/ lon.nan
               \/ lat.val < -90 * Scale \/ lat.val > 90 * Scale
               \/ lon.val < -180 * Scale \/ lon.val > 180 * Scale
            THEN fail
            ELSE [fired |-> <<"searchedLocation", "updateWeather">>,
                  geo |-> FALSE, err |-> FALSE,
                  upd |-> <<lat.val, lon.val>>]

\* currentLocation(): only the getCurrentPosition request; its callbacks
\* are the actions GeoSuccess and GeoError.
currentLocation ==
    [fired |-> <<"currentLocation">>, geo |-> TRUE, err |-> FALSE,
     upd |-> NoCall]

\* String.prototype.slice(1)
Slice1(s) == IF s = <<>> THEN <<>> ELSE Tail(s)

\* checkHash looking the whole request URL up, query included.
checkHashNoSplit(h) ==
    LET route == Slice1(h)
    IN  IF route \in DOMAIN routes
        THEN IF routes[route] = "currentLocation" THEN currentLocation
             ELSE searchedLocation(<<>>)
        ELSE [fired |-> <<"error404">>, geo |-> FALSE, err |-> TRUE,
              upd |-> NoCall]

\* checkHash() on the hash h.
checkHash(h) ==
    LET requestURL == Slice1(h)
        parts == IF IndexOf(requestURL, "?") # 0 THEN Split(requestURL, "?")
                 ELSE <<requestURL, <<>> >>
        route == parts[1]
        query == parts[2]
    IN  IF route \in DOMAIN routes
        THEN IF routes[route] = "currentLocation" THEN currentLocation
             ELSE searchedLocation(query)
        ELSE [fired |-> <<"error404">>, geo |-> FALSE, err |-> TRUE,
              upd |-> NoCall]

\* ------------------------------------------------------ app.js data ----
\* One simulated hour of the hourly slider, in seconds.
Hour == 3600

\* Hours the hourly slider is limited to.
HourLimit == 24

\* Repetitions of each forecast point in the hourly slider.
Repeat == 3

\* Entries of the 7-day list.
DayLimit == 7

\* First index (0-based) and stride of the 7-day pick in the forecast list.
DayFirst == 7
DayStride == 8

\* Days subtracted from daysProcessed when a padded entry's date is moved.
PadShift == 4

\* Seconds of a day, for the calendar date of a timestamp.
DaySeconds == 24 * Hour

\* The forecast endpoint's payload: n points at 3-hour resolution, the
\* first at ForecastStart.  dt is the point's unix time; its dt_txt is the
\* same instant as text, of which only the calendar day is displayed.
ForecastStart == 19000 * DaySeconds

forecastList(n) ==
    [i \in 1..n |-> [dt |-> ForecastStart + (i - 1) * Repeat * Hour]]

\* new Date(dt_txt), as a day number.
DateOf(point) == point.dt \div DaySeconds

\* The 24h forecast loop showing every point twice instead of three times.
RECURSIVE HourlyLoopTwice(_, _, _)
HourlyLoopTwice(list, index, hourCount) ==
    IF index > Len(list) \/ hourCount >= HourLimit THEN <<>>
    ELSE LET room == IF HourLimit - hourCount < 2
                     THEN HourLimit - hourCount ELSE 2
             made == [i \in 1..room |-> list[index].dt + (i - 1) * Hour]
         IN  made \o HourlyLoopTwice(list, index + 1, hourCount + room)

\* The 24h forecast loop: every point is shown Repeat times, one simulated
\* hour apart, until HourLimit entries were made.  Returns the timestamps of
\* the entries appended (to the temperature list and to the wind list).
RECURSIVE HourlyLoop(_, _, _)
HourlyLoop(list, index, hourCount) ==
    IF index > Len(list) \/ hourCount >= HourLimit THEN <<>>
    ELSE LET room == IF HourLimit - hourCount < Repeat
                     THEN HourLimit - hourCount ELSE Repeat
             made == [i \in 1..room |-> list[index].dt + (i - 1) * Hour]
         IN  made \o HourlyLoop(list, index + 1, hourCount + room)

\* The first 7-day loop: the points at 0-based indices 7, 15, 23, ... below
\* the list length, at most DayLimit of them, each with its own date.
RECURSIVE DayLoop(_, _, _)
DayLoop(list, i, daysProcessed) ==
    IF ~(i < Len(list) /\ daysProcessed < DayLimit) THEN <<>>
    ELSE <<[data |-> list[i + 1], date |-> DateOf(list[i + 1])]>>
            \o DayLoop(list, i + DayStride, daysProcessed + 1)

\* The padding loop: the last point again, its date moved by
\* (daysProcessed - 4) days, until DayLimit entries exist.  Only called on a
\* non-empty list.
RECURSIVE PadLoop(_, _)
PadLoop(list, daysProcessed) ==
    IF ~(daysProcessed < DayLimit) THEN <<>>
    ELSE LET lastData == list[Len(list)]
         IN  <<[data |-> lastData,
                date |-> DateOf(lastData) + (daysProcessed - PadShift)]>>
                \o PadLoop(list, daysProcessed + 1)

\* A section with no content (innerHTML = "").
\* points is the length of the forecast list the content was built from.
Empty == [cycle |-> 0, points |-> 0, temp |-> <<>>, wind |-> <<>>,
          items |-> <<>>]

\* ------------------------------------------------------------- state ----
VARIABLES
    opened,                \* the hash the page was opened with
    hash,                  \* window.location.hash
    loaded,                \* the load event was dispatched
    pendingHashChange,     \* hashchange events queued, not yet dispatched
    navs,                  \* user navigations so far
    geoPending,            \* getCurrentPosition requests not yet answered
    loadingDisplay,        \* loading.style.display
    overflowY,             \* container.style.overflowY
    fadeIn,                \* container.classList has "fade-in"
    errorDisplay,          \* errorContent.style.display
    disabled,              \* currentLocationBtn has the disabled attribute
    currentWeatherSection, \* cards in [data-current-weather], by render cycle
    located,               \* cycles whose card had its location label set
    highlightSection,      \* cards in [data-highlights], by render cycle
    hourlySection,         \* content of [data-hourly-forecast]
    forecastSection,       \* content of [data-5-day-forecast]
    cycles,                \* the updateWeather calls so far: arguments, fetches
                           \* issued, status of the current-weather response
    inflight,              \* fetches issued and not yet settled: <<cycle, kind>>
    log,                   \* what each checkHash run so far invoked
    fieldValue,            \* searchField.value
    searchTimeout,         \* the module variable searchTimeout: 0 for null,
                           \* else the id the last setTimeout returned
    timers,                \* timers set and neither fired nor cleared
    searchInflight,        \* geocode-search fetches in flight
    fieldSearching,        \* searchField.classList has "searching"
    resultActive,          \* searchResult.classList has "active"
    resultSearching,       \* searchResult.classList has "searching"
    resultContent,         \* searchResult.innerHTML
    searchViewActive,      \* searchView.classList has "active"
    inputs,                \* input events so far
    answered,              \* ids of the searches whose response arrived
    last                   \* the router run of the last step: the hash it
                           \* read, the functions it invoked, its
                           \* updateWeather arguments

router == <<hash, loaded, pendingHashChange, navs, geoPending>>
history == <<opened, log, last>>
visual == <<loadingDisplay, overflowY, fadeIn, errorDisplay, disabled>>
sections == <<currentWeatherSection, located, highlightSection,
              hourlySection, forecastSection>>
fetches == <<cycles, inflight>>
search == <<fieldValue, searchTimeout, timers, searchInflight,
            fieldSearching, resultActive, resultSearching, resultContent,
            searchViewActive, inputs, answered>>
vars == <<router, visual, sections, fetches, history, search>>

\* ------------------------------------------------------------ inputs ----
London == <<515000, -1200>>

\* The position the device reports.
GeoCoords == {<<488566, 23522>>}

\* "#/forecast", a hash no route is registered for.
UnknownHash == <<"#", "/", "f", "o", "r", "e", "c", "a", "s", "t">>

\* Hashes the page is opened with, and hashes the user navigates to.
StartHashes ==
    {<<>>, CurrentLocationHash, UnknownHash,
     WeatherHash(London[1], London[2]), WeatherHash(999 * Scale, 0)}

NavHashes == StartHashes \ {<<>>}

\* "#/weather?<query>"
WeatherQuery(query) == <<"#">> \o WeatherRoute \o <<"?">> \o query

\* "lat=<latText>&lon=<lonText>"
LatLon(latText, lonText) == LatKey \o latText \o <<"&">> \o LonKey \o lonText

\* "lon=<lonText>&lat=<latText>"
LonLat(latText, lonText) == LonKey \o lonText \o <<"&">> \o LatKey \o latText

\* Coordinates a well-formed link carries: London, the fallback location,
\* the origin and the four corners of the valid range.
ValidCoords ==
    {London, <<286139, 772090>>, <<0, 0>>,
     <<90 * Scale, 180 * Scale>>, <<-90 * Scale, -180 * Scale>>,
     <<90 * Scale, -180 * Scale>>, <<-90 * Scale, 180 * Scale>>}

\* Coordinates just outside the valid range, and far outside.
InvalidCoords ==
    {<<90 * Scale + 1, 0>>, <<-90 * Scale - 1, 0>>, <<0, 180 * Scale + 1>>,
     <<0, -180 * Scale - 1>>, <<999 * Scale, 0>>, <<0, 999 * Scale>>,
     <<-999 * Scale, -999 * Scale>>}

\* Values that are not decimal numbers: "abc", "", "-", ".", "12abc",
\* "1=2", "5.5.5", "7x".
OddTexts ==
    {<<"a", "b", "c">>, <<>>, <<"-">>, <<".">>,
     <<"1", "2", "a", "b", "c">>, <<"1", "=", "2">>,
     <<"5", ".", "5", ".", "5">>, <<"7", "x">>}

LondonLat == NumToStr(London[1])
LondonLon == NumToStr(London[2])

\* Queries of the "/weather" route.
Queries ==
    {LatLon(NumToStr(p[1]), NumToStr(p[2])) : p \in ValidCoords \cup InvalidCoords}
    \cup {LonLat(NumToStr(p[1]), NumToStr(p[2])) : p \in {London, <<999 * Scale, 0>>}}
    \cup {LatLon(t, LondonLon) : t \in OddTexts}
    \cup {LatLon(LondonLat, t) : t \in OddTexts}
    \cup {<<>>,
          LatKey \o LondonLat,
          LonKey \o LondonLon,
          <<"x">> \o LatLon(LondonLat, LondonLon),
          <<"l", "a", "t">> \o LondonLat \o <<"&">> \o LonKey \o LondonLon,
          LatKey \o LondonLat \o <<"&">> \o LatLon(<<"9", "9", "9">>, LondonLon),
          LatKey \o <<"9", "9", "9">> \o <<"&">> \o LatLon(LondonLat, LondonLon),
          <<"u", "=", "m", "&">> \o LatLon(LondonLat, LondonLon),
          LonKey \o LondonLon \o <<"&">> \o LonLat(LondonLat, <<"9", "9", "9">>),
          LonKey \o <<"9", "9", "9">> \o <<"&">> \o LonLat(LondonLat, LondonLon),
          LatLon(LondonLat, LondonLon) \o <<"?", "x">>}

\* Hashes the router is exercised on under SpecRoute.
RouteHashes ==
    StartHashes
    \cup {WeatherQuery(q) : q \in Queries}
    \cup {<<"#">> \o WeatherRoute,
          <<"#">> \o WeatherRoute \o <<"x">>,
          <<"#">> \o WeatherRoute \o <<"/">>,
          CurrentLocationHash \o <<"?", "x">>,
          CurrentLocationHash \o <<"/">>,
          <<"#", "/">>,
          <<"#", "w", "e", "a", "t", "h", "e", "r">>}

\* Embedded status of a current-weather response.
CodValues == {200, 404}

\* Lengths of the forecast list a forecast response carries.
ForecastLens == {0, 40}

\* No handler of the router ran in the last step.
NoRun == [hash |-> <<>>, fired |-> <<>>, upd |-> NoCall]

\* searchResult.innerHTML = "": no list.  id is the search the content
\* answers (0 for none), items the coordinates of its rows.
NoResults == [id |-> 0, query |-> <<>>, list |-> FALSE, items |-> <<>>]

\* The search box before any input.
SearchInit ==
    /\ fieldValue = <<>>
    /\ searchTimeout = 0
    /\ timers = {}
    /\ searchInflight = {}
    /\ fieldSearching = FALSE
    /\ resultActive = FALSE
    /\ resultSearching = FALSE
    /\ resultContent = NoResults
    /\ searchViewActive = FALSE
    /\ inputs = 0
    /\ answered = {}

\* The page before its load event, opened with the hash h.
Opened(h) ==
    /\ SearchInit
    /\ opened = h
    /\ hash = h
    /\ log = <<>>
    /\ loaded = FALSE
    /\ pendingHashChange = 0
    /\ navs = 0
    /\ geoPending = 0
    /\ loadingDisplay = "none"
    /\ overflowY = "auto"
    /\ fadeIn = FALSE
    /\ errorDisplay = "none"
    /\ disabled = FALSE
    /\ currentWeatherSection = <<>>
    /\ located = {}
    /\ highlightSection = <<>>
    /\ hourlySection = Empty
    /\ forecastSection = Empty
    /\ cycles = <<>>
    /\ inflight = {}
    /\ last = NoRun

Init == \E h \in StartHashes : Opened(h)

\* ----------------------------------------------------------- actions ----
\* error404()
error404 ==
    /\ errorDisplay' = "flex"
    /\ UNCHANGED <<loadingDisplay, overflowY, fadeIn, disabled>>

\* updateWeather that leaves the error panel as it is.
updateWeatherKeepsError(lat, lon, h) ==
    /\ loadingDisplay' = "grid"
    /\ overflowY' = "hidden"
    /\ fadeIn' = FALSE
    /\ errorDisplay' = errorDisplay
    /\ currentWeatherSection' = <<>>
    /\ highlightSection' = <<>>
    /\ hourlySection' = Empty
    /\ forecastSection' = Empty
    /\ disabled' = (h = CurrentLocationHash)
    /\ cycles' = Append(cycles, [lat |-> lat, lon |-> lon,
                                 issued |-> <<"currentWeather">>,
                                 cod |-> 0])
    /\ inflight' = inflight \cup {<<Len(cycles) + 1, "currentWeather">>}
    /\ UNCHANGED located

\* updateWeather(lat, lon) up to the issue of the current-weather fetch; h
\* is window.location.hash as the call reads it.
updateWeather(lat, lon, h) ==
    /\ loadingDisplay' = "grid"
    /\ overflowY' = "hidden"
    /\ fadeIn' = FALSE
    /\ errorDisplay' = "none"
    /\ currentWeatherSection' = <<>>
    /\ highlightSection' = <<>>
    /\ hourlySection' = Empty
    /\ forecastSection' = Empty
    /\ disabled' = (h = CurrentLocationHash)
    /\ cycles' = Append(cycles, [lat |-> lat, lon |-> lon,
                                 issued |-> <<"currentWeather">>,
                                 cod |-> 0])
    /\ inflight' = inflight \cup {<<Len(cycles) + 1, "currentWeather">>}
    /\ UNCHANGED located

\* What a handler run of outcome e does to the page.
Apply(e, h) ==
    /\ geoPending' = IF e.geo THEN geoPending + 1 ELSE geoPending
    /\ IF e.upd # NoCall THEN updateWeather(e.upd[1], e.upd[2], h)
       ELSE /\ IF e.err THEN error404 ELSE UNCHANGED visual
            /\ UNCHANGED <<sections, fetches>>

\* A checkHash run of outcome e on the hash h, recorded.
Run(e, h) ==
    /\ Apply(e, h)
    /\ log' = Append(log, e.fired)
    /\ last' = [hash |-> h, fired |-> <<"checkHash">> \o e.fired,
                upd |-> e.upd]

\* Setting window.location.hash: a hashchange event is queued when the
\* value changes.
SetHash(h) ==
    /\ hash' = h
    /\ pendingHashChange' = IF h # hash THEN pendingHashChange + 1
                            ELSE pendingHashChange

\* The load listener without its else: checkHash runs on the new hash too.
LoadAlwaysChecks ==
    /\ UNCHANGED search
    /\ ~loaded
    /\ loaded' = TRUE
    /\ UNCHANGED <<navs, opened>>
    /\ IF hash = <<>>
       THEN /\ SetHash(CurrentLocationHash)
            /\ Run(checkHash(CurrentLocationHash), CurrentLocationHash)
       ELSE /\ Run(checkHash(hash), hash)
            /\ UNCHANGED <<hash, pendingHashChange>>

\* The load listener.
Load ==
    /\ UNCHANGED search
    /\ ~loaded
    /\ loaded' = TRUE
    /\ UNCHANGED <<navs, opened>>
    /\ IF hash = <<>>
       THEN /\ SetHash(CurrentLocationHash)
            /\ UNCHANGED <<geoPending, visual, sections, fetches, log>>
            /\ last' = NoRun
       ELSE /\ Run(checkHash(hash), hash)
            /\ UNCHANGED <<hash, pendingHashChange>>

\* The hashchange listener, on one queued event.
HashChange ==
    /\ UNCHANGED search
    /\ loaded
    /\ pendingHashChange > 0
    /\ pendingHashChange' = pendingHashChange - 1
    /\ Run(checkHash(hash), hash)
    /\ UNCHANGED <<hash, loaded, navs, opened>>

\* The user changes the hash: a link of the search results, the address bar.
Navigate(h) ==
    /\ UNCHANGED search
    /\ loaded
    /\ navs < MaxNav
    /\ h # hash
    /\ navs' = navs + 1
    /\ SetHash(h)
    /\ last' = NoRun
    /\ UNCHANGED <<opened, log>>
    /\ UNCHANGED <<loaded, geoPending, visual, sections, fetches>>

\* getCurrentPosition's success callback.
GeoSuccess(pos) ==
    /\ UNCHANGED search
    /\ geoPending > 0
    /\ geoPending' = geoPending - 1
    /\ updateWeather(pos[1], pos[2], hash)
    /\ last' = [hash |-> hash, fired |-> <<"updateWeather">>, upd |-> pos]
    /\ UNCHANGED <<opened, log>>
    /\ UNCHANGED <<hash, loaded, pendingHashChange, navs>>

\* An error callback that shows the error panel and leaves the hash alone.
GeoErrorShowsError ==
    /\ UNCHANGED search
    /\ geoPending > 0
    /\ geoPending' = geoPending - 1
    /\ error404
    /\ last' = [NoRun EXCEPT !.fired = <<"positionError">>]
    /\ UNCHANGED <<hash, pendingHashChange, loaded, navs, sections, fetches,
                   opened, log>>

\* getCurrentPosition's error callback.
GeoError ==
    /\ UNCHANGED search
    /\ geoPending > 0
    /\ geoPending' = geoPending - 1
    /\ SetHash(defaultLocation)
    /\ last' = [NoRun EXCEPT !.fired = <<"positionError">>]
    /\ UNCHANGED <<opened, log>>
    /\ UNCHANGED <<loaded, navs, visual, sections, fetches>>

\* fetchData(url, callback): the request is in flight until it is answered
\* (the callback runs with the decoded payload) or fails (the callback never
\* runs).
fetchData(requests) == inflight \cup requests

\* The current-weather callback without the return of its error branch:
\* error404 runs, loading is hidden and the rendering goes on.
CurrentWeatherResponseNoReturn(c, cod) ==
    /\ UNCHANGED search
    /\ <<c, "currentWeather">> \in inflight
    /\ IF cod # 0 /\ cod # 200
       THEN /\ error404
            /\ loadingDisplay' = "none"
       ELSE UNCHANGED visual
    /\ currentWeatherSection' = Append(currentWeatherSection, c)
    /\ cycles' = [cycles EXCEPT
                    ![c].cod = cod,
                    ![c].issued =
                      @ \o <<"reverseGeo", "airPollution", "forecast">>]
    /\ inflight' = fetchData({<<c, "reverseGeo">>, <<c, "airPollution">>,
                              <<c, "forecast">>})
                     \ {<<c, "currentWeather">>}
    /\ UNCHANGED <<located, highlightSection, hourlySection, forecastSection>>
    /\ last' = NoRun
    /\ UNCHANGED <<opened, log>>
    /\ UNCHANGED router

\* The current-weather callback of render cycle c, on a payload whose
\* embedded status is cod.
CurrentWeatherResponse(c, cod) ==
    /\ UNCHANGED search
    /\ <<c, "currentWeather">> \in inflight
    /\ IF cod # 0 /\ cod # 200
       THEN /\ error404
            /\ loadingDisplay' = "none"
            /\ inflight' = inflight \ {<<c, "currentWeather">>}
            /\ cycles' = [cycles EXCEPT ![c].cod = cod]
            /\ UNCHANGED sections
       ELSE /\ currentWeatherSection' = Append(currentWeatherSection, c)
            /\ cycles' = [cycles EXCEPT
                            ![c].cod = cod,
                            ![c].issued =
                              @ \o <<"reverseGeo", "airPollution", "forecast">>]
            /\ inflight' = fetchData({<<c, "reverseGeo">>,
                                      <<c, "airPollution">>,
                                      <<c, "forecast">>})
                             \ {<<c, "currentWeather">>}
            /\ UNCHANGED <<visual, located, highlightSection,
                           hourlySection, forecastSection>>
    /\ last' = NoRun
    /\ UNCHANGED <<opened, log>>
    /\ UNCHANGED router

\* The reverse-geocode callback that also ends the loading state.
ReverseGeoResponseShowsContent(c) ==
    /\ UNCHANGED search
    /\ <<c, "reverseGeo">> \in inflight
    /\ inflight' = inflight \ {<<c, "reverseGeo">>}
    /\ located' = located \cup {c}
    /\ loadingDisplay' = "none"
    /\ overflowY' = "overlay"
    /\ fadeIn' = TRUE
    /\ last' = NoRun
    /\ UNCHANGED <<opened, log>>
    /\ UNCHANGED <<router, errorDisplay, disabled, currentWeatherSection,
                   highlightSection, hourlySection, forecastSection, cycles>>

\* The reverse-geocode callback: the label of the cycle's own card.
ReverseGeoResponse(c) ==
    /\ UNCHANGED search
    /\ <<c, "reverseGeo">> \in inflight
    /\ inflight' = inflight \ {<<c, "reverseGeo">>}
    /\ located' = located \cup {c}
    /\ last' = NoRun
    /\ UNCHANGED <<opened, log>>
    /\ UNCHANGED <<router, visual, currentWeatherSection, highlightSection,
                   hourlySection, forecastSection, cycles>>

\* The air-pollution callback: one more card in the highlights section.
AirPollutionResponse(c) ==
    /\ UNCHANGED search
    /\ <<c, "airPollution">> \in inflight
    /\ inflight' = inflight \ {<<c, "airPollution">>}
    /\ highlightSection' = Append(highlightSection, c)
    /\ last' = NoRun
    /\ UNCHANGED <<opened, log>>
    /\ UNCHANGED <<router, visual, currentWeatherSection, located,
                   hourlySection, forecastSection, cycles>>

\* The forecast callback that ends the loading state only for the latest
\* render cycle.
ForecastResponseLatestEndsLoading(c, n) ==
    /\ UNCHANGED search
    /\ <<c, "forecast">> \in inflight
    /\ inflight' = inflight \ {<<c, "forecast">>}
    /\ LET list   == forecastList(n)
           hours  == HourlyLoop(list, 1, 0)
           days   == DayLoop(list, DayFirst, 0)
           thrown == Len(days) < DayLimit /\ n = 0
       IN  /\ hourlySection' = [Empty EXCEPT !.cycle = c, !.points = n,
                                             !.temp = hours, !.wind = hours]
           /\ forecastSection' =
                [Empty EXCEPT !.cycle = c, !.points = n,
                              !.items = IF thrown THEN days
                                        ELSE days \o PadLoop(list, Len(days))]
           /\ IF thrown \/ c # Len(cycles) THEN UNCHANGED visual
              ELSE /\ loadingDisplay' = "none"
                   /\ overflowY' = "overlay"
                   /\ fadeIn' = TRUE
                   /\ UNCHANGED <<errorDisplay, disabled>>
    /\ last' = NoRun
    /\ UNCHANGED <<opened, log>>
    /\ UNCHANGED <<router, currentWeatherSection, located, highlightSection,
                   cycles>>

\* The forecast callback on a list of n points.  On an empty list the read
\* of the last point throws in the padding loop: both sections were replaced
\* by then, and the lines that end the loading state are never reached.
ForecastResponse(c, n) ==
    /\ UNCHANGED search
    /\ <<c, "forecast">> \in inflight
    /\ inflight' = inflight \ {<<c, "forecast">>}
    /\ LET list   == forecastList(n)
           hours  == HourlyLoop(list, 1, 0)
           days   == DayLoop(list, DayFirst, 0)
           thrown == Len(days) < DayLimit /\ n = 0
       IN  /\ hourlySection' = [Empty EXCEPT !.cycle = c, !.points = n,
                                             !.temp = hours, !.wind = hours]
           /\ forecastSection' =
                [Empty EXCEPT !.cycle = c, !.points = n,
                              !.items = IF thrown THEN days
                                        ELSE days \o PadLoop(list, Len(days))]
           /\ IF thrown THEN UNCHANGED visual
              ELSE /\ loadingDisplay' = "none"
                   /\ overflowY' = "overlay"
                   /\ fadeIn' = TRUE
                   /\ UNCHANGED <<errorDisplay, disabled>>
    /\ last' = NoRun
    /\ UNCHANGED <<opened, log>>
    /\ UNCHANGED <<router, currentWeatherSection, located, highlightSection,
                   cycles>>

\* A fetch fails (network or decode): its callback never runs.
FetchFail(f) ==
    /\ UNCHANGED search
    /\ f \in inflight
    /\ inflight' = inflight \ {f}
    /\ last' = NoRun
    /\ UNCHANGED <<opened, log>>
    /\ UNCHANGED <<router, visual, sections, cycles>>

(***************************************************************************)
(* The search box (app.js, SEARCH INTEGRATION).  It shares only the hash   *)
(* with the rest of the page: a click on a result row follows its link.    *)
(***************************************************************************)

\* const searchTimeoutDuration
searchTimeoutDuration == 500

\* Texts typed into the search field
FieldValues == {<<>>, <<"l">>, <<"l", "o">>}

\* Payloads of the geocode search: the coordinates of the rows found
Locations == {<<>>, <<London>>}

\* setTimeout returns an id no earlier call returned
NewTimer == inputs + 1

\* clearTimeout(id): the timer with that id, if still pending, is dropped
clearTimeout(id) == {t \in timers : t.id # id}

\* The input listener that never clears the pending timer.
InputNoClear(v) ==
    /\ inputs < MaxInputs
    /\ v # fieldValue
    /\ inputs' = inputs + 1
    /\ fieldValue' = v
    /\ IF v = <<>>
       THEN /\ timers' = timers
            /\ resultActive' = FALSE
            /\ resultContent' = NoResults
            /\ resultSearching' = FALSE
            /\ UNCHANGED <<fieldSearching, searchTimeout>>
       ELSE /\ fieldSearching' = TRUE
            /\ searchTimeout' = NewTimer
            /\ timers' = timers \cup
                   {[id |-> NewTimer, started |-> v,
                     delay |-> searchTimeoutDuration]}
            /\ UNCHANGED <<resultActive, resultContent, resultSearching>>
    /\ UNCHANGED <<searchInflight, searchViewActive, answered>>
    /\ UNCHANGED <<router, visual, sections, fetches, history>>

\* The input listener of the search field: the field now holds v.  started
\* records the field value the timer was set under.
Input(v) ==
    /\ inputs < MaxInputs
    /\ v # fieldValue
    /\ inputs' = inputs + 1
    /\ fieldValue' = v
    /\ LET cleared == IF searchTimeout # 0 THEN clearTimeout(searchTimeout)
                      ELSE timers
       IN  IF v = <<>>
           THEN /\ timers' = cleared
                /\ resultActive' = FALSE
                /\ resultContent' = NoResults
                /\ resultSearching' = FALSE
                /\ UNCHANGED <<fieldSearching, searchTimeout>>
           ELSE /\ fieldSearching' = TRUE
                /\ searchTimeout' = NewTimer
                /\ timers' = cleared \cup
                       {[id |-> NewTimer, started |-> v,
                         delay |-> searchTimeoutDuration]}
                /\ UNCHANGED <<resultActive, resultContent, resultSearching>>
    /\ UNCHANGED <<searchInflight, searchViewActive, answered>>
    /\ UNCHANGED <<router, visual, sections, fetches, history>>

\* The timer callback: the geocode search of the field's present value is
\* issued.  searchTimeout keeps the id of the fired timer.
TimerFires(t) ==
    /\ t \in timers
    /\ timers' = timers \ {t}
    /\ searchInflight' = searchInflight \cup
           {[id |-> t.id, query |-> fieldValue]}
    /\ UNCHANGED <<fieldValue, searchTimeout, fieldSearching, resultActive,
                   resultSearching, resultContent, searchViewActive, inputs,
                   answered>>
    /\ UNCHANGED <<router, visual, sections, fetches, history>>

\* The callback of the geocode search that drops the response of a search
\* that is not the latest one issued.
SearchResponseLatestOnly(f, locations) ==
    /\ f \in searchInflight
    /\ searchInflight' = searchInflight \ {f}
    /\ answered' = answered \cup {f.id}
    /\ IF \A g \in searchInflight : g.id <= f.id
       THEN /\ fieldSearching' = FALSE
            /\ resultActive' = TRUE
            /\ resultContent' = [id |-> f.id, query |-> f.query,
                                 list |-> TRUE, items |-> locations]
       ELSE UNCHANGED <<fieldSearching, resultActive, resultContent>>
    /\ UNCHANGED <<fieldValue, searchTimeout, timers, resultSearching,
                   searchViewActive, inputs>>
    /\ UNCHANGED <<router, visual, sections, fetches, history>>

\* The callback of the geocode search f, called with its payload.
SearchResponse(f, locations) ==
    /\ f \in searchInflight
    /\ searchInflight' = searchInflight \ {f}
    /\ answered' = answered \cup {f.id}
    /\ fieldSearching' = FALSE
    /\ resultActive' = TRUE
    /\ resultContent' = [id |-> f.id, query |-> f.query, list |-> TRUE,
                         items |-> locations]
    /\ UNCHANGED <<fieldValue, searchTimeout, timers, resultSearching,
                   searchViewActive, inputs>>
    /\ UNCHANGED <<router, visual, sections, fetches, history>>

\* The geocode search f fails: its callback is never called.
SearchFail(f) ==
    /\ f \in searchInflight
    /\ searchInflight' = searchInflight \ {f}
    /\ UNCHANGED <<fieldValue, searchTimeout, timers, fieldSearching,
                   resultActive, resultSearching, resultContent,
                   searchViewActive, inputs, answered>>
    /\ UNCHANGED <<router, visual, sections, fetches, history>>

\* A click on a search toggler.
toggleSearch ==
    /\ searchViewActive' = ~searchViewActive
    /\ UNCHANGED <<fieldValue, searchTimeout, timers, searchInflight,
                   fieldSearching, resultActive, resultSearching,
                   resultContent, inputs, answered>>
    /\ UNCHANGED <<router, visual, sections, fetches, history>>

\* A click on the i-th result row: its click listener runs and the browser
\* follows its link.
ClickResult(i) ==
    /\ i \in 1..Len(resultContent.items)
    /\ searchViewActive' = ~searchViewActive
    /\ resultActive' = FALSE
    /\ SetHash(WeatherHash(resultContent.items[i][1],
                           resultContent.items[i][2]))
    /\ last' = NoRun
    /\ UNCHANGED <<fieldValue, searchTimeout, timers, searchInflight,
                   fieldSearching, resultSearching, resultContent, inputs,
                   answered>>
    /\ UNCHANGED <<opened, log, loaded, navs, geoPending, visual, sections,
                   fetches>>


Cycles == 1..Len(cycles)

Next ==
    \/ Load
    \/ HashChange
    \/ \E h \in NavHashes : Navigate(h)
    \/ \E pos \in GeoCoords : GeoSuccess(pos)
    \/ GeoError
    \/ \E c \in Cycles, cod \in CodValues : CurrentWeatherResponse(c, cod)
    \/ \E c \in Cycles : ReverseGeoResponse(c)
    \/ \E c \in Cycles : AirPollutionResponse(c)
    \/ \E c \in Cycles, n \in ForecastLens : ForecastResponse(c, n)
    \/ \E f \in inflight : FetchFail(f)

Spec == Init /\ [][Next]_vars

\* The router alone, on a wide set of hashes: no fetch is ever answered.
InitRoute == \E h \in RouteHashes : Opened(h)

NextRoute ==
    \/ Load
    \/ HashChange
    \/ \E h \in RouteHashes : Navigate(h)
    \/ \E pos \in GeoCoords : GeoSuccess(pos)
    \/ GeoError

SpecRoute == InitRoute /\ [][NextRoute]_vars

\* The forecast callback alone, on every list length: the page was opened
\* on a valid link and the current-weather response of its render cycle
\* arrived with status 200.
InitForecast ==
    /\ SearchInit
    /\ opened = WeatherHash(London[1], London[2])
    /\ hash = opened
    /\ log = << <<"searchedLocation", "updateWeather">> >>
    /\ loaded = TRUE
    /\ pendingHashChange = 0
    /\ navs = 0
    /\ geoPending = 0
    /\ loadingDisplay = "grid"
    /\ overflowY = "hidden"
    /\ fadeIn = FALSE
    /\ errorDisplay = "none"
    /\ disabled = FALSE
    /\ currentWeatherSection = <<1>>
    /\ located = {}
    /\ highlightSection = <<>>
    /\ hourlySection = Empty
    /\ forecastSection = Empty
    /\ cycles = <<[lat |-> London[1], lon |-> London[2],
                   issued |-> <<"currentWeather", "reverseGeo",
                                "airPollution", "forecast">>,
                   cod |-> 200]>>
    /\ inflight = {<<1, "reverseGeo">>, <<1, "airPollution">>,
                   <<1, "forecast">>}
    /\ last = NoRun

NextForecast ==
    \/ \E c \in Cycles : ReverseGeoResponse(c)
    \/ \E c \in Cycles : AirPollutionResponse(c)
    \/ \E c \in Cycles, n \in 0..MaxForecastLen : ForecastResponse(c, n)

SpecForecast == InitForecast /\ [][NextForecast]_vars

\* The search box alone: the page is never loaded and nothing is rendered.
NextSearch ==
    \/ \E v \in FieldValues : Input(v)
    \/ \E t \in timers : TimerFires(t)
    \/ \E f \in searchInflight, locations \in Locations :
           SearchResponse(f, locations)
    \/ \E f \in searchInflight : SearchFail(f)
    \/ toggleSearch
    \/ \E i \in 1..Len(resultContent.items) : ClickResult(i)

SpecSearch == Init /\ [][NextSearch]_vars

\* The browser dispatches queued hashchange events: again and again no
\* event is left in the queue.  (HashChange is the only action that takes
\* an event from the queue, and it is enabled whenever one is queued.)
SpecRouteFair == SpecRoute /\ []<>(pendingHashChange = 0)

\* ------------------------------------------------------------ claims ----
\* The last step was a checkHash run.
RouterRan == last.fired # <<>> /\ Head(last.fired) = "checkHash"

\* The last step was a checkHash run that entered searchedLocation.
SearchedRan ==
    RouterRan /\ Len(last.fired) >= 2 /\ last.fired[2] = "searchedLocation"

\* The hash h names the route r: "#" and r, then nothing or "?" and more.
HasRoute(h, r) ==
    \/ h = <<"#">> \o r
    \/ StartsWith(h, <<"#">> \o r \o <<"?">>)

\* The text of h between its first "?" and its second, the query the
\* handler is given.
QueryOf(h) ==
    LET i    == IndexOf(h, "?")
        rest == SubSeq(h, i + 1, Len(h))
        j    == IndexOf(rest, "?")
    IN  IF i = 0 THEN <<>>
        ELSE IF j = 0 THEN rest ELSE SubSeq(rest, 1, j - 1)

\* Positions of q at which a parameter starting with key starts.
ParamStarts(q, key) ==
    {i \in 1..Len(q) : /\ i = 1 \/ q[i - 1] = "&"
                       /\ StartsWith(SubSeq(q, i, Len(q)), key)}

\* The value of the first parameter of q that starts with key: the text
\* from the key to the next "&".
ParamValue(q, key) ==
    LET i    == CHOOSE k \in ParamStarts(q, key) :
                    \A m \in ParamStarts(q, key) : k <= m
        rest == SubSeq(q, i + Len(key), Len(q))
        j    == IndexOf(rest, "&")
    IN  IF j = 0 THEN rest ELSE SubSeq(rest, 1, j - 1)

\* t is a decimal number from end to end: an optional sign, digits, at
\* most one point, at least one digit.
IsDecimal(t) ==
    LET body == IF t # <<>> /\ Head(t) \in {"-", "+"} THEN Tail(t) ELSE t
    IN  /\ \A i \in 1..Len(body) : IsDigit(body[i]) \/ body[i] = "."
        /\ Cardinality({i \in 1..Len(body) : body[i] = "."}) <= 1
        /\ \E i \in 1..Len(body) : IsDigit(body[i])

\* The query q is one the validation policy rejects: a key is missing, a
\* value is no number, or a value is out of range.
Malformed(q) ==
    \/ ParamStarts(q, LatKey) = {}
    \/ ParamStarts(q, LonKey) = {}
    \/ ~IsDecimal(ParamValue(q, LatKey))
    \/ ~IsDecimal(ParamValue(q, LonKey))
    \/ parseFloat(ParamValue(q, LatKey)).val < -90 * Scale
    \/ parseFloat(ParamValue(q, LatKey)).val > 90 * Scale
    \/ parseFloat(ParamValue(q, LonKey)).val < -180 * Scale
    \/ parseFloat(ParamValue(q, LonKey)).val > 180 * Scale

\* C1: every query handed to searchedLocation that lacks a lat= or a lon=
\* parameter, or whose lat or lon value is not a number or is out of range,
\* ends in error404 and the error panel.
C1_MalformedQueryReachesError ==
    (SearchedRan /\ Malformed(QueryOf(last.hash)))
        => (last.fired = <<"checkHash", "searchedLocation", "error404">>
            /\ errorDisplay = "flex")

\* The three visual states.
LoadingShown == loadingDisplay = "grid"
ContentShown == fadeIn
ErrorShown == errorDisplay = "flex"

\* updateWeather or error404 ran at least once.
Rendered == cycles # <<>> \/ ErrorShown

\* C3: once the page rendered anything, exactly one of loading, content
\* and error is active.
C3_ExactlyOneVisualState ==
    Rendered =>
        \/ LoadingShown /\ ~ContentShown /\ ~ErrorShown
        \/ ~LoadingShown /\ ContentShown /\ ~ErrorShown
        \/ ~LoadingShown /\ ~ContentShown /\ ErrorShown

\* The fetches a render cycle issues after its current-weather response.
Secondary == {"reverseGeo", "airPollution", "forecast"}

\* The step delivers to cycle c a current-weather response of a status
\* other than 200.
C4_Step ==
    \A c \in Cycles :
        (cycles[c].cod = 0 /\ cycles'[c].cod \notin {0, 200})
            => /\ errorDisplay' = "flex"
               /\ loadingDisplay' = "none"
               /\ cycles'[c].issued = <<"currentWeather">>
               /\ inflight' = inflight \ {<<c, "currentWeather">>}

FourFetches == <<"currentWeather", "reverseGeo", "airPollution", "forecast">>

\* C5: a checkHash run on "#/weather?lat=<a>&lon=<b>", a and b valid, calls
\* updateWeather(a, b); a render cycle issues the current-weather fetch
\* first and, once its response had status 200, exactly the four fetches
\* current weather, reverse geocode, air pollution, forecast, in that order.
C5_ValidLinkRendersFourFetches ==
    /\ \A p \in ValidCoords :
          (RouterRan /\ last.hash = WeatherHash(p[1], p[2]))
              => /\ last.fired = <<"checkHash", "searchedLocation",
                                   "updateWeather">>
                 /\ last.upd = p
                 /\ cycles[Len(cycles)].lat = p[1]
                 /\ cycles[Len(cycles)].lon = p[2]
    /\ \A c \in Cycles :
          /\ cycles[c].cod = 200 => cycles[c].issued = FourFetches
          /\ cycles[c].cod # 200 => cycles[c].issued = <<"currentWeather">>

C5_Witness ==
    \E c \in Cycles :
        /\ cycles[c].lat = 515000
        /\ cycles[c].lon = -1200
        /\ cycles[c].cod = 200
        /\ cycles[c].issued = FourFetches
        /\ opened = <<"#">> \o WeatherRoute \o <<"?">> \o LatKey
                       \o <<"5", "1", ".", "5">> \o <<"&">> \o LonKey
                       \o <<"-", "0", ".", "1", "2">>
        /\ navs = 0

\* C7: a forecast list of fewer than 63 points gives exactly 7 entries in
\* the 7-day section: the k-th is the point at 0-based index 7 + 8(k-1)
\* while that is below the list length, and the last point with its date
\* moved by (k-1) - 4 days otherwise.
C7_SevenDayEntries ==
    (forecastSection.cycle # 0 /\ forecastSection.points < 63) =>
        LET n    == forecastSection.points
            list == forecastList(n)
        IN  /\ Len(forecastSection.items) = 7
            /\ \A k \in 1..7 :
                  forecastSection.items[k] =
                    IF 7 + 8 * (k - 1) < n
                    THEN [data |-> list[8 * k], date |-> DateOf(list[8 * k])]
                    ELSE [data |-> list[n],
                          date |-> DateOf(list[n]) + ((k - 1) - 4)]

\* The smaller of two numbers.
Min(a, b) == IF a < b THEN a ELSE b

\* C8: a forecast list of n points gives min(24, 3n) entries in the
\* temperature list and in the wind list of the hourly section, each
\* entry's timestamp 3600 seconds after that of the entry before it.
C8_HourlyEntries ==
    hourlySection.cycle # 0 =>
        /\ Len(hourlySection.temp) = Min(24, 3 * hourlySection.points)
        /\ Len(hourlySection.wind) = Min(24, 3 * hourlySection.points)
        /\ \A k \in 2..Len(hourlySection.temp) :
              hourlySection.temp[k] = hourlySection.temp[k - 1] + 3600
        /\ \A k \in 2..Len(hourlySection.wind) :
              hourlySection.wind[k] = hourlySection.wind[k - 1] + 3600

C8_Witness ==
    /\ hourlySection.cycle = 1
    /\ hourlySection.points = 5
    /\ Len(hourlySection.temp) = 15
    /\ hourlySection.temp[15] = hourlySection.temp[1] + 14 * 3600

\* The registered handlers among the functions a run invoked.
IsHandler(f) == f \in {"currentLocation", "searchedLocation"}

\* C2: a checkHash run on a hash of route "/current-location" or "/weather"
\* fires that route's handler and no other registered handler; on any
\* other hash it fires error404 and no registered handler.
C2_OneHandlerPerRun ==
    RouterRan =>
        IF HasRoute(last.hash, CurrentLocationRoute)
        THEN SelectSeq(last.fired, IsHandler) = <<"currentLocation">>
        ELSE IF HasRoute(last.hash, WeatherRoute)
        THEN SelectSeq(last.fired, IsHandler) = <<"searchedLocation">>
        ELSE last.fired = <<"checkHash", "error404">> /\ errorDisplay = "flex"

C2_Witness ==
    /\ RouterRan
    /\ last.hash = CurrentLocationHash \o <<"?", "x">>
    /\ last.fired = <<"checkHash", "currentLocation">>
    /\ navs = 1

\* The step is a checkHash run in which searchedLocation rejects the query.
C6_RejectedStep ==
    (SearchedRan' /\ last'.fired[3] = "error404")
        => /\ errorDisplay' = "flex"
           /\ last'.upd = NoCall
           /\ cycles' = cycles
           /\ inflight' = inflight

\* C6: a navigation whose "/weather" query the validation rejects shows the
\* error panel, calls updateWeather not at all and issues no fetch; the
\* hash "#/weather?lat=999&lon=0" is such a navigation.
C6_RejectedQueryFetchesNothing ==
    /\ [][C6_RejectedStep]_vars
    /\ [](RouterRan /\ last.hash = WeatherQuery(LatLon(<<"9", "9", "9">>, <<"0">>))
            => last.fired = <<"checkHash", "searchedLocation", "error404">>)

C6_Witness ==
    /\ RouterRan
    /\ last.hash = WeatherQuery(LatLon(<<"9", "9", "9">>, <<"0">>))
    /\ errorDisplay = "flex"
    /\ Len(cycles) = 1
    /\ navs = 1

\* C9: a page opened with an empty hash sets the hash to
\* "#/current-location" in its load listener without running a handler;
\* the hashchange event then enters currentLocation, once, and error404 is
\* not run (no user navigation in between).
C9_EmptyHashLoad ==
    (opened = <<>> /\ navs = 0) =>
        /\ ~loaded => log = <<>> /\ hash = <<>>
        /\ (loaded /\ log = <<>>)
              => hash = CurrentLocationHash /\ pendingHashChange = 1
                   /\ geoPending = 0
        /\ log # <<>> => log[1] = <<"currentLocation">>
        /\ \A i \in 2..Len(log) : log[i] = <<"searchedLocation", "updateWeather">>
        /\ Len(log) <= 2
        /\ (loaded /\ pendingHashChange = 0) => log # <<>>
        /\ errorDisplay = "none"

C9_Witness ==
    /\ opened = <<>>
    /\ navs = 0
    /\ log = << <<"currentLocation">> >>
    /\ geoPending = 1
    /\ pendingHashChange = 0

\* "#/weather?lat=28.6139&lon=77.209"
FallbackHash == WeatherHash(286139, 772090)

\* The last step was the error callback of getCurrentPosition.
PositionFailed == last.fired = <<"positionError">>

\* Some render cycle is for the fallback location.
FallbackRendered ==
    \E c \in Cycles : cycles[c].lat = 286139 /\ cycles[c].lon = 772090

\* C10: when the position request fails the error panel is left as it was
\* and the hash becomes "#/weather?lat=28.6139&lon=77.209"; a checkHash run
\* on that hash passes validation and calls updateWeather(28.6139, 77.209),
\* and with no further navigation that call is eventually made.
C10_FallbackOnGeoError ==
    /\ [][PositionFailed' =>
            /\ hash' = FallbackHash
            /\ visual' = visual
            /\ pendingHashChange' =
                  IF hash = FallbackHash THEN pendingHashChange
                  ELSE pendingHashChange + 1]_vars
    /\ []((RouterRan /\ last.hash = FallbackHash) =>
            /\ last.fired = <<"checkHash", "searchedLocation", "updateWeather">>
            /\ last.upd = <<286139, 772090>>
            /\ cycles[Len(cycles)].lat = 286139
            /\ cycles[Len(cycles)].lon = 772090)
    /\ ((PositionFailed /\ pendingHashChange > 0 /\ navs = MaxNav)
            ~> FallbackRendered)

C10_Witness ==
    /\ RouterRan
    /\ last.hash = FallbackHash
    /\ log = << <<"currentLocation">>, <<"searchedLocation", "updateWeather">> >>
    /\ FallbackRendered
    /\ errorDisplay = "none"

\* ------------------------------------------------------ search claims ----
\* The step is an input event on the search field.
InputStep == inputs' = inputs + 1

\* The geocode searches the step issues.
IssuedSearches == searchInflight' \ searchInflight

\* C11: an input event leaves no earlier timer pending; if it leaves the
\* field empty the results are cleared and hidden at once and no timer is
\* started, otherwise exactly one timer of 500 ms is started.  At most one
\* timer is pending at any time, and a geocode search is issued only by the
\* firing of the timer of the last input event, for the field value of
\* that event.
C11_Step ==
    /\ Cardinality(timers') <= 1
    /\ InputStep =>
         /\ timers \cap timers' = {}
         /\ IF fieldValue' = <<>>
            THEN /\ timers' = {}
                 /\ ~resultActive'
                 /\ resultContent' = NoResults
            ELSE /\ timers' = {[id |-> inputs', started |-> fieldValue',
                                delay |-> 500]}
                 /\ searchTimeout' = inputs'
         /\ IssuedSearches = {}
    /\ \A f \in IssuedSearches :
         /\ IssuedSearches = {f}
         /\ ~InputStep
         /\ \E t \in timers \ timers' :
              /\ t.id = f.id
              /\ t.id = inputs
              /\ t.started = fieldValue
         /\ f.query = fieldValue
         /\ f.query # <<>>

C11_DebouncedSearch == [][C11_Step]_vars

\* Two input events, the second one replacing the timer of the first, and
\* the search of the second one issued.
C11_Witness ==
    /\ inputs = 2
    /\ timers = {}
    /\ searchInflight = {[id |-> 2, query |-> fieldValue]}
    /\ answered = {}

\* ------------------------------------------------- render cycle claims ----
\* The step is an entry of updateWeather: it opens a render cycle.
EntryStep == Len(cycles') = Len(cycles) + 1

\* C12: whatever the page showed before, an entry of updateWeather leaves
\* the four sections empty, the loading indicator shown, the error panel
\* hidden and the fade-in removed; in particular it leaves the error
\* state.
C12_Step ==
    EntryStep =>
        /\ loadingDisplay' = "grid"
        /\ errorDisplay' = "none"
        /\ fadeIn' = FALSE
        /\ currentWeatherSection' = <<>>
        /\ highlightSection' = <<>>
        /\ hourlySection'.items = <<>> /\ hourlySection'.points = 0
        /\ forecastSection'.items = <<>> /\ forecastSection'.points = 0
        /\ \A c \in Cycles : cycles'[c] = cycles[c]

C12_EntryResetsPage == [][C12_Step]_vars

\* The page was opened on an unregistered route, showed the error panel,
\* and the router has just run updateWeather for a valid link.
C12_Witness ==
    /\ log = << <<"error404">>, <<"searchedLocation", "updateWeather">> >>
    /\ last.upd # NoCall
    /\ LoadingShown
    /\ ~ErrorShown
    /\ ~ContentShown

\* The page rendered one cycle and nothing navigated since it was opened.
OneCycle == Len(cycles) = 1 /\ navs = 0

\* The fetch of kind k of cycle c was issued and is over.
Over(c, k) ==
    /\ \E i \in 1..Len(cycles[c].issued) : cycles[c].issued[i] = k
    /\ <<c, k>> \notin inflight

\* The fetch of kind k of cycle c failed: it is over and its callback left
\* no trace.
Failed(c, k) ==
    /\ Over(c, k)
    /\ k = "reverseGeo" => c \notin located
    /\ k = "airPollution" =>
         \A i \in 1..Len(highlightSection) : highlightSection[i] # c
    /\ k = "forecast" => hourlySection.cycle # c

\* The step is the failure of a fetch: the fetch is over and nothing else
\* changed.
FailStep ==
    /\ inflight' # inflight
    /\ inflight' \subseteq inflight
    /\ UNCHANGED <<cycles, sections>>

\* The step is the forecast callback of cycle c.
ForecastStep(c) ==
    /\ <<c, "forecast">> \in inflight \ inflight'
    /\ hourlySection'.cycle = c

C13_Step ==
    /\ (~ContentShown /\ ContentShown') => \E c \in Cycles : ForecastStep(c)
    /\ FailStep => UNCHANGED visual
    /\ (OneCycle /\ ForecastStep(1) /\ hourlySection'.points > 0) =>
           ContentShown' /\ ~LoadingShown' /\ ~ErrorShown'

\* C13: the page moves from loading to content only in a forecast
\* callback.  In a single render cycle with no further navigation, a
\* failed forecast fetch leaves the page loading, with neither content nor
\* error, for as long as nothing navigates; a failed fetch of any kind
\* changes nothing of the visual state, and a forecast callback on a
\* non-empty list moves the page to content whether or not the
\* reverse-geocode and air-pollution fetches failed.
C13_ContentOnlyFromForecast ==
    /\ [][C13_Step]_vars
    /\ [](OneCycle /\ Failed(1, "forecast")
            => LoadingShown /\ ~ContentShown /\ ~ErrorShown)

\* One cycle whose forecast fetch failed after the other two responses
\* were rendered: the page still shows the loading indicator.
C13_Witness ==
    /\ OneCycle
    /\ Failed(1, "forecast")
    /\ 1 \in located
    /\ highlightSection = <<1>>
    /\ LoadingShown

\* One cycle whose reverse-geocode and air-pollution fetches failed and
\* whose forecast was rendered: the page shows the content.
C13_WitnessContent ==
    /\ OneCycle
    /\ Failed(1, "reverseGeo")
    /\ Failed(1, "airPollution")
    /\ hourlySection.cycle = 1
    /\ ContentShown
    /\ ~ErrorShown

\* ------------------------------------------------------- query claims ----
\* The query q with its two parameters in the other order; q itself when
\* it does not have exactly two parameters.
Swapped(q) ==
    LET i == IndexOf(q, "&")
        a == SubSeq(q, 1, i - 1)
        b == SubSeq(q, i + 1, Len(q))
    IN  IF i = 0 \/ IndexOf(b, "&") # 0 THEN q
        ELSE b \o <<"&">> \o a

\* C14: the pair searchedLocation hands to updateWeather is the number of
\* the first parameter starting with "lat=" and the number of the first
\* parameter starting with "lon=", wherever the two stand in the query and
\* whatever other parameters and later duplicates it has; the query with
\* its two parameters swapped hands over the same pair.
C14_FirstMatchAnyOrder ==
    (SearchedRan /\ last.upd # NoCall) =>
        LET q == QueryOf(last.hash)
        IN  /\ ParamStarts(q, LatKey) # {}
            /\ ParamStarts(q, LonKey) # {}
            /\ last.upd = <<parseFloat(ParamValue(q, LatKey)).val,
                            parseFloat(ParamValue(q, LonKey)).val>>
            /\ searchedLocation(Swapped(q)).upd = last.upd

\* "lon=-0.12&lon=999&lat=51.5": lon before lat and a later duplicate of
\* lon; London is handed over.
C14_Witness ==
    /\ SearchedRan
    /\ last.hash = WeatherQuery(LonKey \o LondonLon \o <<"&">>
                                \o LonLat(LondonLat, <<"9", "9", "9">>))
    /\ last.upd = London

\* -------------------------------------------------------- race claims ----
\* Cycle c is not the latest render cycle: a navigation followed it.
Stale(c) == c < Len(cycles)

\* C15: a response of a render cycle that a navigation has left behind is
\* not discarded.  The forecast callback of a stale cycle replaces the
\* hourly and the 7-day section with its own data and, on a non-empty
\* list, moves the page to content, whatever the latest cycle has
\* received; sections only ever hold data of cycles whose response
\* arrived.
C15_Step ==
    \A c \in Cycles :
        (Stale(c) /\ ForecastStep(c)) =>
            /\ forecastSection'.cycle = c
            /\ hourlySection'.points > 0 =>
                 ContentShown' /\ ~LoadingShown'

C15_StaleResponsesApplied ==
    /\ [][C15_Step]_vars
    /\ [](\A i \in 1..Len(highlightSection) :
            Over(highlightSection[i], "airPollution"))

\* After the navigation from A to B the highlights section holds a card of
\* A and a card of B, the forecast sections hold A's data, and the page
\* shows the content while B's forecast is still in flight.
C15_Witness ==
    /\ Len(cycles) = 2
    /\ <<cycles[1].lat, cycles[1].lon>> # <<cycles[2].lat, cycles[2].lon>>
    /\ \E i, j \in 1..Len(highlightSection) :
          highlightSection[i] = 1 /\ highlightSection[j] = 2
    /\ hourlySection.cycle = 1
    /\ forecastSection.cycle = 1
    /\ ContentShown
    /\ ~LoadingShown
    /\ <<2, "forecast">> \in inflight

\* The step is the callback of the geocode search f (a failed search is
\* never answered).
SearchCallbackStep(f) ==
    /\ f \in searchInflight \ searchInflight'
    /\ f.id \in answered' \ answered

\* C16: the response of a geocode search is applied when it arrives,
\* whichever searches were issued after it and whether or not they were
\* answered already: the panel then shows the results of that search.
C16_Step ==
    \A f \in searchInflight :
        SearchCallbackStep(f) =>
            /\ resultActive'
            /\ resultContent'.list
            /\ resultContent'.id = f.id
            /\ resultContent'.query = f.query

C16_ArrivalOrder == [][C16_Step]_vars

\* Two searches were issued; the response of the second arrived first, and
\* the panel shows the results of the first, which are not those of the
\* text in the field.
C16_Witness ==
    /\ inputs = 2
    /\ answered = {1, 2}
    /\ resultContent.id = 1
    /\ resultContent.query # fieldValue
    /\ resultActive

\* C17: whenever the search field is empty, the results panel is hidden
\* and has no content, also after the response of a search that was in
\* flight when the field was emptied.
C17_EmptyFieldHidesResults ==
    fieldValue = <<>> => ~resultActive /\ resultContent = NoResults

\* C18: after an input event that left the field empty, once no timer is
\* pending and no geocode search is in flight, the search field does not
\* carry the "searching" class.
C18_EmptyFieldNotSearching ==
    (inputs > 0 /\ fieldValue = <<>> /\ timers = {} /\ searchInflight = {})
        => ~fieldSearching

====
